---- MODULE Spec2Model ----
(***************************************************************************)
(* Model of hot-lib-reloader-macro/src/hot_module/module_body.rs:          *)
(*   - <HotModule as syn::parse::Parse>::parse, the module body parser;    *)
(*   - <HotModule as quote::ToTokens>::to_tokens, the module assembler.    *)
(*                                                                         *)
(* The parser is modelled one `?`-step at a time.  The header of the       *)
(* module (everything before the brace block) is a token sequence chosen   *)
(* in Init; the body items are revealed one per loop iteration, which is   *)
(* what `while !module_body_stream.is_empty()` observes.                   *)
(***************************************************************************)
EXTENDS Naturals, Sequences, FiniteSets

VARIABLES
    input,      \* the header as written: [vis |-> tokens, rest |-> tokens]
    stream,     \* `stream`: the tokens of the header not consumed yet
    pc,         \* position in parse: "vis","mod","ident","braced","items","done","err"
    vis,        \* local `vis`
    visFailed,  \* whether stream.parse::<Visibility>() returned Err (unwrap_or used)
    ident,      \* local `ident`
    items,      \* local `items: Vec<Item>`
    consumed,   \* the body items read from module_body_stream so far
    lowered,    \* the calls made to gen_hot_module_function_for: <<f, span>>
    warnings,   \* the lines written by eprintln!
    result,     \* what parse returned: Ok(HotModule) / Err / nothing yet
    tokens_in,  \* the `tokens` argument of to_tokens at the call
    tokens,     \* the `tokens` argument of to_tokens after the call
    emit        \* to_tokens: "idle" (not called), "ok" (returned), "panic"

vars == <<input, stream, pc, vis, visFailed, ident, items, consumed, lowered,
          warnings, result, tokens_in, tokens, emit>>

\* The most body items a module holds.
MaxItems == 3

RECURSIVE Flatten(_)
Flatten(ss) == IF ss = <<>> THEN <<>> ELSE Head(ss) \o Flatten(Tail(ss))

Range(s) == {s[i] : i \in 1..Len(s)}

(***************************************************************************)
(* Tokens of the module header.                                            *)
(***************************************************************************)
Tok(t) == [t |-> t, content |-> <<>>, name |-> ""]
IdentTok(n) == [t |-> "ident", content |-> <<>>, name |-> n]
ParenTok(c) == [t |-> "paren", content |-> c, name |-> ""]

\* What may be written where a visibility qualifier goes.
VisPrefixes ==
    { <<>>,
      <<Tok("pub")>>,
      <<Tok("crate")>>,
      <<Tok("pub"), ParenTok(<<Tok("crate")>>)>>,
      <<Tok("pub"), ParenTok(<<Tok("in"), IdentTok("a")>>)>>,
      <<Tok("pub"), ParenTok(<<Tok("in"), Tok("lit")>>)>>,
      <<Tok("pub"), ParenTok(<<Tok("in")>>)>>,
      <<Tok("pub"), ParenTok(<<Tok("crate"), Tok("lit")>>)>> }

\* What may follow it: `mod <ident> { ... }` and its malformed variants.
HeaderRests ==
    { <<Tok("mod"), IdentTok("foo"), Tok("brace")>>,
      <<Tok("mod"), IdentTok("bar"), Tok("brace")>>,
      <<IdentTok("foo"), Tok("brace")>>,
      <<Tok("mod"), Tok("brace")>>,
      <<Tok("mod"), IdentTok("foo")>>,
      <<Tok("mod"), IdentTok("foo"), Tok("lit")>>,
      <<>> }

(***************************************************************************)
(* stream.parse::<syn::Visibility>() (syn 1.x), as called on line 37.      *)
(* Returns [ok, vis, rest]: on Err the cursor is where the failing         *)
(* sub-parser left it, since ParseStream::parse does not rewind.           *)
(***************************************************************************)
ParsePubRestricted(s) ==
    \* `pub` is consumed; Head(s) is a parenthesised group, read on a fork
    LET c == Head(s).content IN
    IF c # <<>> /\ Head(c).t \in {"crate", "self", "super"}
    THEN IF Len(c) = 1
         THEN [ok |-> TRUE, vis |-> "restricted", rest |-> Tail(s)]
         ELSE [ok |-> TRUE, vis |-> "pub", rest |-> s]
    ELSE IF c # <<>> /\ Head(c).t = "in"
    THEN IF Len(c) >= 2 /\ c[2].t \in {"ident", "crate", "self", "super"}
         THEN [ok |-> TRUE, vis |-> "restricted", rest |-> Tail(s)]
         ELSE [ok |-> FALSE, vis |-> "none", rest |-> s]
    ELSE [ok |-> TRUE, vis |-> "pub", rest |-> s]

ParseVisibility(s) ==
    IF s # <<>> /\ Head(s).t = "pub"
    THEN IF Tail(s) # <<>> /\ Head(Tail(s)).t = "paren"
         THEN ParsePubRestricted(Tail(s))
         ELSE [ok |-> TRUE, vis |-> "pub", rest |-> Tail(s)]
    ELSE IF s # <<>> /\ Head(s).t = "crate"
    THEN IF Len(s) >= 2 /\ s[2].t = "colon2"
         THEN [ok |-> TRUE, vis |-> "inherited", rest |-> s]
         ELSE [ok |-> TRUE, vis |-> "crate", rest |-> Tail(s)]
    ELSE [ok |-> TRUE, vis |-> "inherited", rest |-> s]

\* line 36-38: .unwrap_or(Visibility::Inherited)
VisOrInherited(r) == IF r.ok THEN r.vis ELSE "inherited"

\* stream.parse::<T>()? for a single-token T (token::Mod, Ident) and braced!
Peek(s, t) == s # <<>> /\ Head(s).t = t

NoResult == [tag |-> "None"]
ErrResult(at) == [tag |-> "Err", at |-> at]

(***************************************************************************)
(* Body items: what module_body_stream.parse::<syn::Item>() yields.        *)
(***************************************************************************)
Path(segs) == [leading_colon |-> FALSE, segments |-> segs]

\* matches on the last segment only
is_ident_suffix(path, name) ==
    path.segments # <<>> /\ path.segments[Len(path.segments)] = name

\* syn::Path::is_ident, as used on lines 57, 73, 95
is_ident(path, name) ==
    /\ ~path.leading_colon
    /\ Len(path.segments) = 1
    /\ path.segments[1] = name

Arg(n, ty) == [pat |-> "ident", name |-> n, ty |-> ty]
SigA == [name |-> "a", inputs |-> <<Arg("x", "i32")>>, output |-> "i32"]
SigB == [name |-> "b", inputs |-> <<>>, output |-> "bool"]
SigDoStuff == [name |-> "do_stuff", inputs |-> <<Arg("arg", "&str")>>, output |-> "u32"]
\* a signature Function Lowering rejects
SigRecv == [name |-> "m", inputs |-> <<[pat |-> "receiver", name |-> "self", ty |-> "Self"]>>,
            output |-> "unit"]

FnItem(attrs, v, sig, block, span) ==
    [kind |-> "fn", attrs |-> attrs, vis |-> v, sig |-> sig, block |-> block, span |-> span]
ForeignFn(attrs, v, sig, span) ==
    [kind |-> "ffn", attrs |-> attrs, vis |-> v, sig |-> sig, span |-> span]
ForeignStatic(n) == [kind |-> "fstatic", name |-> n]
ForeignMod(attrs, fitems) == [kind |-> "foreign_mod", attrs |-> attrs, fitems |-> fitems]
MacroItem(path, mtokens) == [kind |-> "macro", path |-> path, mtokens |-> mtokens]
LitStrTok(v) == [t |-> "litstr", value |-> v]

HotFromFile == Path(<<"hot_functions_from_file">>)
HotFunction == Path(<<"hot_function">>)
HotFunctions == Path(<<"hot_functions">>)

ItemUniverse ==
    { [kind |-> "other", name |-> "S"],
      [kind |-> "bad"],
      MacroItem(HotFromFile, <<LitStrTok("lib.rs")>>),
      MacroItem(HotFromFile, <<LitStrTok("empty.rs")>>),
      MacroItem(HotFromFile, <<LitStrTok("missing.rs")>>),
      MacroItem(HotFromFile, <<LitStrTok("recv.rs")>>),
      MacroItem(HotFromFile, <<[t |-> "ident", value |-> "PATH"]>>),
      MacroItem(HotFromFile, <<LitStrTok("lib.rs"), LitStrTok("lib.rs")>>),
      MacroItem(Path(<<"println">>), <<LitStrTok("lib.rs")>>),
      MacroItem(Path(<<"x", "hot_functions_from_file">>), <<LitStrTok("lib.rs")>>),
      FnItem(<<HotFunction>>, "pub", SigDoStuff, "body", "s1"),
      FnItem(<<Path(<<"inline">>), HotFunction>>, "inherited", SigA, "body", "s2"),
      FnItem(<<HotFunction>>, "pub", SigRecv, "body", "s3"),
      FnItem(<<HotFunctions>>, "pub", SigA, "body", "s4"),
      FnItem(<<Path(<<"x", "hot_function">>)>>, "pub", SigA, "body", "s5"),
      FnItem(<<>>, "inherited", SigB, "body", "s6"),
      ForeignMod(<<HotFunctions>>,
                 <<ForeignFn(<<>>, "pub", SigA, "s7"), ForeignStatic("X"),
                   ForeignFn(<<Path(<<"doc">>)>>, "inherited", SigB, "s8")>>),
      ForeignMod(<<HotFunctions>>,
                 <<ForeignStatic("X"), ForeignFn(<<>>, "pub", SigRecv, "s9"),
                   ForeignStatic("Y"), ForeignFn(<<>>, "pub", SigB, "s10")>>),
      ForeignMod(<<Path(<<"link">>), HotFunctions>>,
                 <<ForeignStatic("X"), ForeignStatic("Y"),
                   ForeignFn(<<>>, "pub", SigDoStuff, "s13")>>),
      ForeignMod(<<HotFunction>>, <<ForeignFn(<<>>, "pub", SigA, "s11")>>),
      ForeignMod(<<>>, <<ForeignFn(<<>>, "pub", SigA, "s12"), ForeignStatic("X")>>) }

(***************************************************************************)
(* Collaborators defined outside module_body.rs.                           *)
(***************************************************************************)
\* crate::util::read_unmangled_functions_from_file: the (signature, span)
\* pairs of an external source file, in source order, or a failure.
read_unmangled_functions_from_file(file_name) ==
    IF file_name = "lib.rs"
    THEN [ok |-> TRUE,
          val |-> << <<ForeignFn(<<>>, "pub", SigA, "f1"), "f1">>,
                     <<ForeignFn(<<>>, "pub", SigB, "f2"), "f2">> >>]
    ELSE IF file_name = "recv.rs"
    THEN [ok |-> TRUE,
          val |-> << <<ForeignFn(<<>>, "pub", SigB, "f3"), "f3">>,
                     <<ForeignFn(<<>>, "pub", SigRecv, "f4"), "f4">>,
                     <<ForeignFn(<<>>, "pub", SigA, "f5"), "f5">> >>]
    ELSE IF file_name = "empty.rs"
    THEN [ok |-> TRUE, val |-> <<>>]
    ELSE [ok |-> FALSE, val |-> <<>>]

\* code_gen::gen_hot_module_function_for: one proxy with the signature and
\* visibility of f, whose body forwards to the loader; or an error at span.
Lowerable(sig) == \A i \in 1..Len(sig.inputs) : sig.inputs[i].pat = "ident"

gen_hot_module_function_for(f, span) ==
    IF Lowerable(f.sig)
    THEN [ok |-> TRUE,
          val |-> [kind |-> "fn", attrs |-> <<>>, vis |-> f.vis, sig |-> f.sig,
                   block |-> "proxy", span |-> span]]
    ELSE [ok |-> FALSE, val |-> span]

\* code_gen::generate_lib_loader_items: the loader scaffolding for a library.
generate_lib_loader_items(lib_dir, lib_name) ==
    IF lib_name = "" \/ lib_dir = ""
    THEN [ok |-> FALSE, val |-> <<>>]
    ELSE [ok |-> TRUE,
          val |-> << [kind |-> "lib_loader", part |-> "handle",
                      lib_name |-> lib_name, lib_dir |-> lib_dir],
                     [kind |-> "lib_loader", part |-> "reload",
                      lib_name |-> lib_name, lib_dir |-> lib_dir] >>]

HotModuleAttributes ==
    { [tag |-> "Some", lib_name |-> "lib", lib_dir |-> "lib/"],
      [tag |-> "Some", lib_name |-> "", lib_dir |-> "lib/"] }

NoAttributes == [tag |-> "None"]

(***************************************************************************)
(* The arms of `match item` (lines 52-115).  Each takes the loop state     *)
(* st = [items, lowered, warnings] and returns it updated, with ok = FALSE *)
(* where a `?` returns the error.                                          *)
(***************************************************************************)
Step(ok, i, l, w, err) ==
    [ok |-> ok, items |-> i, lowered |-> l, warnings |-> w, err |-> err]

PushItemFront(its, x) == <<x>> \o its

\* items.push(..), lines 62, 83, 102, 114
PushItem(its, x) == Append(its, x)

\* syn::parse::<LitStr>(tokens), line 58: the whole argument is one string literal
ParseLitStr(mtokens) ==
    IF Len(mtokens) = 1 /\ mtokens[1].t = "litstr"
    THEN [ok |-> TRUE, val |-> mtokens[1].value]
    ELSE [ok |-> FALSE, val |-> ""]

\* skips a signature that cannot be lowered
RECURSIVE LowerFunctionsSkip(_, _)
LowerFunctionsSkip(functions, st) ==
    IF functions = <<>> THEN st
    ELSE LET f == Head(functions)[1]
             span == Head(functions)[2]
             g == gen_hot_module_function_for(f, span)
             l == Append(st.lowered, <<f, span>>)
         IN IF ~g.ok
            THEN LowerFunctionsSkip(Tail(functions),
                                    Step(TRUE, st.items, l, st.warnings, ""))
            ELSE LowerFunctionsSkip(Tail(functions),
                                    Step(TRUE, Append(st.items, g.val),
                                         l, st.warnings, ""))

\* lines 60-63: for (f, span) in functions { gen..?; items.push(..) }
RECURSIVE LowerFunctions(_, _)
LowerFunctions(functions, st) ==
    IF functions = <<>> THEN st
    ELSE LET f == Head(functions)[1]
             span == Head(functions)[2]
             g == gen_hot_module_function_for(f, span)
             l == Append(st.lowered, <<f, span>>)
         IN IF ~g.ok
            THEN Step(FALSE, st.items, l, st.warnings, "lowering")
            ELSE LowerFunctions(Tail(functions),
                                Step(TRUE, PushItem(st.items, g.val), l, st.warnings, ""))

\* keeps a directive whose argument is no string literal as a plain item
FromFileArmFallback(it, st) ==
    LET file_name == ParseLitStr(it.mtokens) IN
    IF ~file_name.ok
    THEN Step(TRUE, Append(st.items, it), st.lowered, st.warnings, "")
    ELSE LET functions == read_unmangled_functions_from_file(file_name.val) IN
         IF ~functions.ok
         THEN Step(FALSE, st.items, st.lowered, st.warnings, "extract")
         ELSE LowerFunctions(functions.val, st)

\* lines 54-64
FromFileArm(it, st) ==
    LET file_name == ParseLitStr(it.mtokens) IN
    IF ~file_name.ok
    THEN Step(FALSE, st.items, st.lowered, st.warnings, "litstr")
    ELSE LET functions == read_unmangled_functions_from_file(file_name.val) IN
         IF ~functions.ok
         THEN Step(FALSE, st.items, st.lowered, st.warnings, "extract")
         ELSE LowerFunctions(functions.val, st)

\* keeps the attributes of the function
SignatureOnlyKeepAttrs(func) ==
    [kind |-> "ffn", attrs |-> func.attrs, vis |-> func.vis, sig |-> func.sig,
     span |-> func.span]

\* lines 76-81: the ForeignItemFn built from an inline-tagged function
SignatureOnly(func) ==
    [kind |-> "ffn", attrs |-> <<>>, vis |-> func.vis, sig |-> func.sig, span |-> func.span]

\* lines 69-84
HotFunctionArm(func, st) ==
    LET span == func.span
        f == SignatureOnly(func)
        g == gen_hot_module_function_for(f, span)
        l == Append(st.lowered, <<f, span>>)
    IN IF ~g.ok
       THEN Step(FALSE, st.items, l, st.warnings, "lowering")
       ELSE Step(TRUE, PushItem(st.items, g.val), l, st.warnings, "")

\* skips silently
WarnNothing(w) == w

\* lines 105-107: eprintln!("[warn] ...")
Warn(w) == Append(w, "[warn] hot_functions extern block includes unexpected items")

\* lines 97-110: for item in foreign_mod.items { match item { .. } }
RECURSIVE LowerForeignItems(_, _)
LowerForeignItems(fitems, st) ==
    IF fitems = <<>> THEN st
    ELSE LET item == Head(fitems) IN
         IF item.kind = "ffn"
         THEN LET span == item.span
                  g == gen_hot_module_function_for(item, span)
                  l == Append(st.lowered, <<item, span>>)
              IN IF ~g.ok
                 THEN Step(FALSE, st.items, l, st.warnings, "lowering")
                 ELSE LowerForeignItems(Tail(fitems),
                          Step(TRUE, PushItem(st.items, g.val), l, st.warnings, ""))
         ELSE LowerForeignItems(Tail(fitems),
                  Step(TRUE, st.items, st.lowered, Warn(st.warnings), ""))

\* lines 91-111
HotFunctionsArm(foreign_mod, st) == LowerForeignItems(foreign_mod.fitems, st)

\* line 114
PlainArm(it, st) == Step(TRUE, PushItem(st.items, it), st.lowered, st.warnings, "")

\* the guards of the arms, lines 57, 70-73, 92-95
HasAttr(attrs, name) == \E i \in 1..Len(attrs) : is_ident(attrs[i], name)

IsFromFile(it) == it.kind = "macro" /\ is_ident(it.path, "hot_functions_from_file")
IsHotFunction(it) == it.kind = "fn" /\ HasAttr(it.attrs, "hot_function")
IsHotFunctions(it) == it.kind = "foreign_mod" /\ HasAttr(it.attrs, "hot_functions")

\* lines 50-115: one iteration of the loop on the item source `it`
MatchItem(it, st) ==
    IF it.kind = "bad" THEN Step(FALSE, st.items, st.lowered, st.warnings, "item")
    ELSE IF IsFromFile(it) THEN FromFileArm(it, st)
    ELSE IF IsHotFunction(it) THEN HotFunctionArm(it, st)
    ELSE IF IsHotFunctions(it) THEN HotFunctionsArm(it, st)
    ELSE PlainArm(it, st)

(***************************************************************************)
(* HotModule::parse, lines 35-124.                                         *)
(***************************************************************************)
Init ==
    /\ input \in [vis : VisPrefixes, rest : HeaderRests]
    /\ stream = input.vis \o input.rest
    /\ pc = "vis"
    /\ vis = "unset"
    /\ visFailed = FALSE
    /\ ident = ""
    /\ items = <<>>
    /\ consumed = <<>>
    /\ lowered = <<>>
    /\ warnings = <<>>
    /\ result = NoResult
    /\ tokens_in = <<>>
    /\ tokens = <<>>
    /\ emit = "idle"

\* `?` on an Err: parse returns it and its locals are dropped
Fail(at) ==
    /\ pc' = "err"
    /\ result' = ErrResult(at)
    /\ items' = <<>>

\* lines 36-38
ParseVis ==
    /\ pc = "vis"
    /\ LET r == ParseVisibility(stream) IN
        /\ vis' = VisOrInherited(r)
        /\ visFailed' = ~r.ok
        /\ stream' = r.rest
    /\ pc' = "mod"
    /\ UNCHANGED <<input, ident, items, consumed, lowered, warnings, result,
                   tokens_in, tokens, emit>>

\* line 40
ParseMod ==
    /\ pc = "mod"
    /\ IF Peek(stream, "mod")
       THEN stream' = Tail(stream) /\ pc' = "ident" /\ UNCHANGED <<result, items>>
       ELSE Fail("mod") /\ UNCHANGED stream
    /\ UNCHANGED <<input, vis, visFailed, ident, consumed, lowered, warnings,
                   tokens_in, tokens, emit>>

\* line 42
ParseIdent ==
    /\ pc = "ident"
    /\ IF Peek(stream, "ident")
       THEN /\ ident' = Head(stream).name
            /\ stream' = Tail(stream)
            /\ pc' = "braced"
            /\ UNCHANGED <<result, items>>
       ELSE Fail("ident") /\ UNCHANGED <<stream, ident>>
    /\ UNCHANGED <<input, vis, visFailed, consumed, lowered, warnings,
                   tokens_in, tokens, emit>>

\* lines 44-47
ParseBraced ==
    /\ pc = "braced"
    /\ IF Peek(stream, "brace")
       THEN stream' = Tail(stream) /\ pc' = "items" /\ UNCHANGED result /\ items' = <<>>
       ELSE Fail("braced") /\ UNCHANGED stream
    /\ UNCHANGED <<input, vis, visFailed, ident, consumed, lowered, warnings,
                   tokens_in, tokens, emit>>

\* lines 49-116: one iteration, the body not being empty
ParseItem(it) ==
    /\ pc = "items"
    /\ Len(consumed) < MaxItems
    /\ consumed' = Append(consumed, it)
    /\ LET r == MatchItem(it, Step(TRUE, items, lowered, warnings, "")) IN
        /\ lowered' = r.lowered
        /\ warnings' = r.warnings
        /\ IF r.ok
           THEN items' = r.items /\ UNCHANGED <<pc, result>>
           ELSE Fail(r.err)
    /\ UNCHANGED <<input, stream, vis, visFailed, ident, tokens_in, tokens, emit>>

\* lines 49, 118-123: the body is empty
EndOfBody ==
    /\ pc = "items"
    /\ pc' = "done"
    /\ result' = [tag |-> "Ok", vis |-> vis, ident |-> ident, items |-> items,
                  attributes |-> NoAttributes]
    /\ UNCHANGED <<input, stream, vis, visFailed, ident, items, consumed, lowered,
                   warnings, tokens_in, tokens, emit>>

(***************************************************************************)
(* The macro entry point attaches the attribute payload to the parsed      *)
(* HotModule before it is turned into tokens.                              *)
(***************************************************************************)
AttachAttributes(a) ==
    /\ pc = "done"
    /\ emit = "idle"
    /\ result.attributes = NoAttributes
    /\ result' = [result EXCEPT !.attributes = a]
    /\ UNCHANGED <<input, stream, pc, vis, visFailed, ident, items, consumed,
                   lowered, warnings, tokens_in, tokens, emit>>

(***************************************************************************)
(* HotModule::to_tokens, lines 128-153.                                    *)
(***************************************************************************)
PriorTokens == { <<>>, <<[kind |-> "prior"]>> }

\* scaffolding before the items
ModuleDefLoaderFirst(v, id, its, lib_loader) ==
    [kind |-> "mod", vis |-> v, ident |-> id, body |-> lib_loader \o its]

\* lines 144-150: quote! { #vis mod #ident { #( #items )* #lib_loader } }
ModuleDef(v, id, its, lib_loader) ==
    [kind |-> "mod", vis |-> v, ident |-> id, body |-> its \o lib_loader]

\* line 152: TokenStream::extend(tokens, module_def)
Extend(ts, module_def) == Append(ts, module_def)

\* emits the module without scaffolding when there are no attributes
to_tokens_missing_attributes(self, ts) ==
    IF self.attributes = NoAttributes
    THEN [panic |-> FALSE, msg |-> "",
          tokens |-> Extend(ts, ModuleDef(self.vis, self.ident, self.items, <<>>))]
    ELSE LET lib_loader == generate_lib_loader_items(self.attributes.lib_dir,
                                                     self.attributes.lib_name)
         IN IF ~lib_loader.ok
            THEN [panic |-> TRUE, msg |-> "error generating hot lib loader helpers",
                  tokens |-> ts]
            ELSE [panic |-> FALSE, msg |-> "",
                  tokens |-> Extend(ts, ModuleDef(self.vis, self.ident, self.items,
                                                  lib_loader.val))]

\* extends the stream with the module before the scaffolding is generated
to_tokens_extend_first(self, ts) ==
    IF self.attributes = NoAttributes
    THEN [panic |-> TRUE, msg |-> "Expected to have macro attributes", tokens |-> ts]
    ELSE LET lib_loader == generate_lib_loader_items(self.attributes.lib_dir,
                                                     self.attributes.lib_name)
             out == Extend(ts, ModuleDef(self.vis, self.ident, self.items,
                                         lib_loader.val))
         IN IF ~lib_loader.ok
            THEN [panic |-> TRUE, msg |-> "error generating hot lib loader helpers",
                  tokens |-> out]
            ELSE [panic |-> FALSE, msg |-> "", tokens |-> out]

\* lines 136-152, on self and the tokens passed in: the tokens left behind,
\* and whether the call panicked
to_tokens(self, ts) ==
    IF self.attributes = NoAttributes
    THEN [panic |-> TRUE, msg |-> "Expected to have macro attributes", tokens |-> ts]
    ELSE LET lib_loader == generate_lib_loader_items(self.attributes.lib_dir,
                                                     self.attributes.lib_name)
         IN IF ~lib_loader.ok
            THEN [panic |-> TRUE, msg |-> "error generating hot lib loader helpers",
                  tokens |-> ts]
            ELSE [panic |-> FALSE, msg |-> "",
                  tokens |-> Extend(ts, ModuleDef(self.vis, self.ident, self.items,
                                                  lib_loader.val))]

ToTokens(ts) ==
    /\ pc = "done"
    /\ emit = "idle"
    /\ tokens_in' = ts
    /\ LET r == to_tokens(result, ts) IN
        /\ tokens' = r.tokens
        /\ emit' = IF r.panic THEN "panic" ELSE "ok"
    /\ UNCHANGED <<input, stream, pc, vis, visFailed, ident, items, consumed,
                   lowered, warnings, result>>

Next ==
    \/ ParseVis
    \/ ParseMod
    \/ ParseIdent
    \/ ParseBraced
    \/ \E it \in ItemUniverse : ParseItem(it)
    \/ EndOfBody
    \/ \E a \in HotModuleAttributes : AttachAttributes(a)
    \/ \E ts \in PriorTokens : ToTokens(ts)

Spec == Init /\ [][Next]_vars

(***************************************************************************)
(* Reference definitions for the properties below, written from the        *)
(* statements and not from the operators above.                            *)
(***************************************************************************)
Last(s) == s[Len(s)]

ExactMarker(attrs, name) == \E i \in 1..Len(attrs) : attrs[i] = Path(<<name>>)

IsDirective(it) == it.kind = "macro" /\ it.path = Path(<<"hot_functions_from_file">>)
IsTaggedFn(it) == it.kind = "fn" /\ ExactMarker(it.attrs, "hot_function")
IsTaggedBlock(it) == it.kind = "foreign_mod" /\ ExactMarker(it.attrs, "hot_functions")
IsPlainItem(it) ==
    /\ it.kind \in {"other", "macro", "fn", "foreign_mod"}
    /\ ~IsDirective(it) /\ ~IsTaggedFn(it) /\ ~IsTaggedBlock(it)

SingleLitStr(mtokens) == Len(mtokens) = 1 /\ mtokens[1].t = "litstr"

ProxyFor(f, span) == gen_hot_module_function_for(f, span).val
Signatures(fitems) == SelectSeq(fitems, LAMBDA x : x.kind = "ffn")
NonSignatures(fitems) == SelectSeq(fitems, LAMBDA x : x.kind # "ffn")
Extracted(it) == read_unmangled_functions_from_file(it.mtokens[1].value).val

\* what one body item contributes to the output items
Expansion(it) ==
    IF IsDirective(it)
    THEN [i \in 1..Len(Extracted(it)) |-> ProxyFor(Extracted(it)[i][1], Extracted(it)[i][2])]
    ELSE IF IsTaggedFn(it)
    THEN << [kind |-> "fn", attrs |-> <<>>, vis |-> it.vis, sig |-> it.sig,
             block |-> "proxy", span |-> it.span] >>
    ELSE IF IsTaggedBlock(it)
    THEN [i \in 1..Len(Signatures(it.fitems)) |->
             ProxyFor(Signatures(it.fitems)[i], Signatures(it.fitems)[i].span)]
    ELSE <<it>>

\* C1: on a successful parse the items are the concatenation, in encounter
\* order, of the expansion of each body item: a plain item is itself, a
\* directive is its proxies in extraction order, a tagged function is one
\* proxy, a tagged block is one proxy per signature in listed order; nothing
\* is reordered, merged or deduplicated.
C1_ItemsAreExpansionsInOrder ==
    pc = "done" =>
        /\ result.tag = "Ok"
        /\ result.items = Flatten([i \in 1..Len(consumed) |-> Expansion(consumed[i])])

\* a plain item, then a directive yielding proxies a and b, then a tagged
\* function also named a: four items, a proxied twice
C1_Witness ==
    /\ pc = "done"
    /\ Len(consumed) = 3
    /\ consumed[1].kind = "other"
    /\ IsDirective(consumed[2])
    /\ IsTaggedFn(consumed[3])
    /\ Len(result.items) = 4
    /\ result.items[1] = consumed[1]
    /\ result.items[2].sig.name = "a"
    /\ result.items[3].sig.name = "b"
    /\ result.items[4].sig.name = "a"

\* C2: to_tokens on a HotModule without attributes panics, and the output
\* token stream is what it was before the call.
C2_NoAttributesPanicsBeforeOutput ==
    (emit # "idle" /\ result.attributes = NoAttributes) =>
        (emit = "panic" /\ tokens = tokens_in)

\* to_tokens was called without attributes, on a module that has items and
\* with tokens already in the stream
C2_Witness ==
    /\ emit = "panic"
    /\ result.attributes = NoAttributes
    /\ result.items # <<>>
    /\ tokens_in # <<>>

\* C3: a body item that is not one of the three special forms (by exact
\* marker name and item kind) is appended unchanged, with no error and no
\* warning.
C3_PlainItemPassedThrough ==
    [][\A it \in ItemUniverse :
          (pc = "items" /\ consumed' = Append(consumed, it) /\ IsPlainItem(it)) =>
              /\ items' = Append(items, it)
              /\ warnings' = warnings
              /\ lowered' = lowered
              /\ pc' = "items"
              /\ result' = result]_vars

\* a function tagged #[hot_functions], a function tagged #[x::hot_function]
\* and an extern block tagged #[hot_function] all came out as they went in
C3_Witness ==
    /\ pc = "done"
    /\ Len(consumed) = 3
    /\ consumed[1].kind = "fn" /\ consumed[1].attrs = <<Path(<<"hot_functions">>)>>
    /\ consumed[2].kind = "fn" /\ consumed[2].attrs = <<Path(<<"x", "hot_function">>)>>
    /\ consumed[3].kind = "foreign_mod" /\ consumed[3].attrs = <<Path(<<"hot_function">>)>>
    /\ result.items = consumed
    /\ warnings = <<>>

AllLowerable(fitems) ==
    \A i \in 1..Len(fitems) : fitems[i].kind = "ffn" => Lowerable(fitems[i].sig)

ItemFails(it) ==
    \/ it.kind = "bad"
    \/ /\ IsDirective(it)
       /\ \/ ~SingleLitStr(it.mtokens)
          \/ ~read_unmangled_functions_from_file(it.mtokens[1].value).ok
          \/ \E i \in 1..Len(Extracted(it)) : ~Lowerable(Extracted(it)[i][1].sig)
    \/ IsTaggedFn(it) /\ ~Lowerable(it.sig)
    \/ IsTaggedBlock(it) /\ ~AllLowerable(it.fitems)

HeaderStepFails ==
    \/ pc = "mod" /\ (stream = <<>> \/ Head(stream).t # "mod")
    \/ pc = "ident" /\ (stream = <<>> \/ Head(stream).t # "ident")
    \/ pc = "braced" /\ (stream = <<>> \/ Head(stream).t # "brace")

\* C5: when a step of parse fails, parse returns the error at once: no
\* further body item is processed, no HotModule is returned, and nothing is
\* ever emitted for it.
C5_FailurePropagatesImmediately ==
    /\ [][(HeaderStepFails \/ (pc = "items" /\ consumed' # consumed
                                 /\ ItemFails(Last(consumed')))) =>
            (pc' = "err" /\ result'.tag = "Err" /\ items' = <<>>)]_vars
    /\ [][pc # "err"]_vars
    /\ [](pc = "err" => (result.tag = "Err" /\ emit = "idle" /\ tokens = <<>>))
    /\ [](\A i \in 1..Len(consumed) : ItemFails(consumed[i]) =>
                (i = Len(consumed) /\ pc = "err"))

\* a plain item was accepted, then a directive whose second signature
\* Function Lowering rejects ended the parse
C5_Witness ==
    /\ pc = "err"
    /\ result = ErrResult("lowering")
    /\ Len(consumed) = 2
    /\ consumed[1].kind = "other"
    /\ IsDirective(consumed[2])
    /\ Len(lowered) = 2

WellFormedHeader(ts) ==
    Len(ts) = 3 /\ ts[1].t = "mod" /\ ts[2].t = "ident" /\ ts[3].t = "brace"

\* C6: when parsing the visibility fails, parse goes on as if no visibility
\* had been written: a well-formed `mod <ident> { .. }` after it is accepted.
C6_VisibilityFailureNotFatal ==
    (visFailed /\ WellFormedHeader(input.rest) /\ consumed = <<>>) => pc # "err"

IsScaffolding(x, a) ==
    x.kind = "lib_loader" /\ x.lib_name = a.lib_name /\ x.lib_dir = a.lib_dir

\* C7: when to_tokens succeeds it appends exactly one module definition,
\* with the visibility and identifier of the HotModule, whose body is all the
\* items in their stored order followed by the loader scaffolding.
C7_ModuleIsItemsThenScaffolding ==
    emit = "ok" =>
        /\ Len(tokens) = Len(tokens_in) + 1
        /\ SubSeq(tokens, 1, Len(tokens_in)) = tokens_in
        /\ LET m == Last(tokens)
               n == Len(result.items)
           IN /\ m.kind = "mod"
              /\ m.vis = result.vis
              /\ m.ident = result.ident
              /\ m.ident = input.rest[2].name
              /\ Len(m.body) > n
              /\ SubSeq(m.body, 1, n) = result.items
              /\ \A i \in (n + 1)..Len(m.body) : IsScaffolding(m.body[i], result.attributes)
              /\ \A i \in 1..n : m.body[i].kind # "lib_loader"

\* `pub mod bar` with a directive yielding a and b was emitted after the
\* tokens already in the stream
C7_Witness ==
    /\ emit = "ok"
    /\ tokens_in # <<>>
    /\ result.vis = "pub"
    /\ result.ident = "bar"
    /\ Len(consumed) = 1
    /\ IsDirective(consumed[1])
    /\ Len(result.items) = 2
    /\ Last(tokens).body[1].sig.name = "a"
    /\ Last(tokens).body[2].sig.name = "b"
    /\ Last(tokens).body[3].kind = "lib_loader"

MalformedDirective(it) == IsDirective(it) /\ ~SingleLitStr(it.mtokens)

\* C8: a hot_functions_from_file! directive whose argument is not a single
\* string literal ends the parse with an error: it is not kept as a plain
\* item, no item after it is processed, and nothing is emitted.
C8_MalformedDirectiveIsFatal ==
    \A i \in 1..Len(consumed) :
        MalformedDirective(consumed[i]) =>
            /\ i = Len(consumed)
            /\ pc = "err"
            /\ result = ErrResult("litstr")
            /\ consumed[i] \notin Range(items)
            /\ emit = "idle"

\* a plain item, then hot_functions_from_file!(PATH)
C8_Witness ==
    /\ pc = "err"
    /\ Len(consumed) = 2
    /\ consumed[1].kind = "other"
    /\ MalformedDirective(consumed[2])
    /\ consumed[2].mtokens[1].t = "ident"

\* C9: a function with an attribute whose path is exactly hot_function, at
\* any position, is handed to Function Lowering once, as a signature-only
\* declaration with its visibility, signature and span and no attributes;
\* only the proxy, never the function itself, is added to the items.
C9_TaggedFnLoweredFromSignatureOnly ==
    [][\A it \in ItemUniverse :
          (pc = "items" /\ consumed' = Append(consumed, it) /\ IsTaggedFn(it)) =>
              /\ lowered' = Append(lowered,
                      << [kind |-> "ffn", attrs |-> <<>>, vis |-> it.vis,
                          sig |-> it.sig, span |-> it.span], it.span >>)
              /\ it \notin Range(items')
              /\ pc' = "items" =>
                    /\ items' = Append(items, ProxyFor(Last(lowered')[1], it.span))
                    /\ Last(items').block # it.block]_vars

\* #[inline] #[hot_function] fn a(x: i32) -> i32 { body } gave one proxy
C9_Witness ==
    /\ pc = "done"
    /\ Len(consumed) = 1
    /\ IsTaggedFn(consumed[1])
    /\ Len(consumed[1].attrs) = 2
    /\ Len(lowered) = 1
    /\ lowered[1][1].attrs = <<>>
    /\ Len(result.items) = 1
    /\ result.items[1].sig = consumed[1].sig
    /\ result.items[1].block = "proxy"

\* C10: when the scaffolding cannot be generated, to_tokens panics and the
\* output token stream is what it was before the call.
C10_ScaffoldingFailureLeavesOutput ==
    (/\ emit # "idle"
     /\ result.attributes # NoAttributes
     /\ ~generate_lib_loader_items(result.attributes.lib_dir,
                                   result.attributes.lib_name).ok) =>
        (emit = "panic" /\ tokens = tokens_in)

\* to_tokens was called with attributes whose library name is malformed, on
\* a module that has items and with tokens already in the stream
C10_Witness ==
    /\ emit = "panic"
    /\ result.attributes # NoAttributes
    /\ result.attributes.lib_name = ""
    /\ result.items # <<>>
    /\ tokens_in # <<>>

====
